---------------------------- MODULE Spec2Model ----------------------------
(***************************************************************************)
(* Model of N200/BlobsFlasher/C37BlobsFlasher.py: device detection, the    *)
(* fastbootd transition loop, and the flash sweep driven by main().        *)
(*                                                                         *)
(* Text produced by the external tools is a sequence of lines; a line is a *)
(* sequence of fragments (short strings).  Substring search is search for  *)
(* a contiguous run of fragments inside one line.  Every query the program *)
(* makes draws its raw output from a small set of outputs the tools can    *)
(* produce, so the device may be in a different condition at every query.  *)
(***************************************************************************)
EXTENDS Naturals, Sequences, FiniteSets

(***************************************************************************)
(* Bounds of the model.                                                    *)
(***************************************************************************)
\* iterations of the `while True` loop of ensure_fastbootd that are explored
MaxPolls == 3
\* environment faults in one run: images that fail to download or extract,
\* plus flash commands that exit non-zero
MaxFaults == 1

\* lines of stdout in an output handed to a detector on its own
MaxProbeLines == 2

\* ports in one answer of list_ports.comports()
MaxPorts == 2

(***************************************************************************)
(* Text helpers: what str.strip, str.lower, `in`, str.endswith and         *)
(* str.splitlines do on the fragment representation.  A fragment other     *)
(* than " " neither starts nor ends with white space.                      *)
(***************************************************************************)
Whitespace == {" "}

Lower(f) ==
    CASE f = "OnePlusN200"     -> "oneplusn200"
      [] f = "OnePlus/"        -> "oneplus/"
      [] f = "System-Fingerprint" -> "system-fingerprint"
      [] f = "IS-USERSPACE:"   -> "is-userspace:"
      [] f = "YES"             -> "yes"
      [] f = "NO"              -> "no"
      [] f = "SERIAL"          -> "serial"
      [] f = "List of devices attached" -> "list of devices attached"
      [] f = "Finished."       -> "finished."
      [] f = "FAILED (remote: unknown variable)" -> "failed (remote: unknown variable)"
      [] f = "MediaTek"        -> "mediatek"
      [] f = "MTK"             -> "mtk"
      [] f = "Preloader"       -> "preloader"
      [] f = "USB"             -> "usb"
      [] f = "VCOM"            -> "vcom"
      [] f = "Port"            -> "port"
      [] f = "VID:PID=0E8D:2000" -> "vid:pid=0e8d:2000"
      [] f = "VID:PID=10C4:EA60" -> "vid:pid=10c4:ea60"
      [] f = "CP2102"          -> "cp2102"
      [] f = "UART"            -> "uart"
      [] OTHER                 -> f

LowerLine(line) == [k \in 1..Len(line) |-> Lower(line[k])]

LowerText(text) == [k \in 1..Len(text) |-> LowerLine(text[k])]

IsBlank(line) == \A k \in 1..Len(line) : line[k] \in Whitespace

RECURSIVE LStripLine(_)
LStripLine(line) ==
    IF line # <<>> /\ Head(line) \in Whitespace THEN LStripLine(Tail(line)) ELSE line

RECURSIVE RStripLine(_)
RStripLine(line) ==
    IF line # <<>> /\ line[Len(line)] \in Whitespace
    THEN RStripLine(SubSeq(line, 1, Len(line) - 1))
    ELSE line

StripLine(line) == RStripLine(LStripLine(line))

RECURSIVE LStripText(_)
LStripText(text) ==
    IF text = <<>> THEN <<>>
    ELSE IF IsBlank(Head(text)) THEN LStripText(Tail(text))
    ELSE <<LStripLine(Head(text))>> \o Tail(text)

RECURSIVE RStripText(_)
RStripText(text) ==
    IF text = <<>> THEN <<>>
    ELSE IF IsBlank(text[Len(text)]) THEN RStripText(SubSeq(text, 1, Len(text) - 1))
    ELSE SubSeq(text, 1, Len(text) - 1) \o <<RStripLine(text[Len(text)])>>

\* str.strip() of a whole output
StripText(text) == RStripText(LStripText(text))

\* a + b on two texts: no newline is inserted, so the last line of a and the
\* first line of b become one line
Concat(a, b) ==
    IF a = <<>> THEN b
    ELSE IF b = <<>> THEN a
    ELSE SubSeq(a, 1, Len(a) - 1) \o <<a[Len(a)] \o Head(b)>> \o Tail(b)

\* needle in line
LineContains(line, needle) ==
    \E k \in 1..Len(line) :
        /\ k + Len(needle) - 1 <= Len(line)
        /\ SubSeq(line, k, k + Len(needle) - 1) = needle

\* needle in text, for a needle without a newline
TextContains(text, needle) == \E k \in 1..Len(text) : LineContains(text[k], needle)

\* line.endswith(word)
EndsWith(line, word) == line # <<>> /\ line[Len(line)] = word

(***************************************************************************)
(* Raw outputs (stdout, stderr) the external tools can produce.            *)
(***************************************************************************)
Raw(o, e) == [out |-> o, err |-> e]

AdbHeader == <<"List of devices attached">>

AdbDevicesOutputs ==
    { Raw(<<>>, <<>>),
      Raw(<<AdbHeader>>, <<>>),
      Raw(<<AdbHeader, <<"SERIAL", " ", "device">>, <<>>>>, <<>>),
      Raw(<<AdbHeader, <<"SERIAL", " ", "device", " ">>>>, <<>>),
      Raw(<<AdbHeader, <<"SERIAL", " ", "unauthorized">>>>, <<>>),
      Raw(<<<<"SERIAL", " ", "device">>>>, <<>>) }

GetpropOutputs ==
    { Raw(<<>>, <<<<"error: no devices/emulators found">>>>),
      Raw(<<<<"[", "ro.product.model", "]: [", "DE2117", "]">>,
            <<"[", "ro.product.name", "]: [", "OnePlusN200", "]">>>>, <<>>),
      Raw(<<<<"[", "ro.product.name", "]: [", "oneplusn200", "]">>>>, <<>>),
      Raw(<<<<"[", "ro.product.name", "]: [", "Pixel", "]">>,
            <<"[", "ro.product.model", "]: [", "OnePlusN200", "]">>>>, <<>>) }

FastbootDevicesOutputs ==
    { Raw(<<>>, <<>>),
      Raw(<<<<" ">>, <<>>>>, <<>>),
      Raw(<<<<"SERIAL", " ", "fastboot">>>>, <<>>),
      Raw(<<>>, <<<<"no permissions; see [http://developer.android.com/tools/device.html]">>>>) }

IsUserspaceOutputs ==
    { Raw(<<>>, <<>>),
      Raw(<<>>, <<<<"is-userspace:", " ", "yes">>, <<"Finished.">>>>),
      Raw(<<>>, <<<<"is-userspace:", " ", "no">>, <<"Finished.">>>>),
      Raw(<<>>, <<<<"IS-USERSPACE:", " ", "YES">>>>),
      Raw(<<<<"is-userspace:", " ", "no">>>>, <<<<"Finished.">>, <<"is-userspace:", " ", "yes">>>>),
      Raw(<<<<"is-userspace:", " ">>>>, <<<<"no">>>>),
      Raw(<<>>, <<<<"getvar:is-userspace", " ", "FAILED (remote: unknown variable)">>>>),
      Raw(<<>>, <<<<"is-userspace:", " ">>, <<"yes">>>>) }

GetvarAllOutputs ==
    { Raw(<<>>, <<>>),
      Raw(<<>>, <<<<"(bootloader)", " ", "product", ":", "holi">>,
                   <<"(bootloader)", " ", "system-fingerprint", ":", "OnePlus/", "OnePlusN200", "/build">>>>),
      Raw(<<<<"(bootloader)", " ", "System-Fingerprint", ":", "oneplus/", "oneplusn200", "/build">>>>, <<>>),
      Raw(<<>>, <<<<"(bootloader)", " ", "system-fingerprint", ":", "google/", "redfin", "/build">>>>),
      Raw(<<>>, <<<<"(bootloader)", " ", "product", ":", "OnePlusN200">>,
                   <<"(bootloader)", " ", "system-fingerprint", ":", "google/", "redfin", "/build">>>>) }

(***************************************************************************)
(* run() and the detectors.                                                *)
(***************************************************************************)
\* run(cmd): (stdout.strip(), stderr.strip()), or (None, None) when the
\* binary is not found
run(installed, raw) ==
    IF installed
    THEN [none |-> FALSE, out |-> StripText(raw.out), err |-> StripText(raw.err)]
    ELSE [none |-> TRUE, out |-> <<>>, err |-> <<>>]

\* (out or "") + (err or "")
Combined(r) == Concat(r.out, r.err)

adb_device_present(r) ==
    IF r.none THEN FALSE
    ELSE \E k \in 2..Len(r.out) : EndsWith(StripLine(r.out[k]), "device")

detect_oneplus_n200_adb(r) ==
    IF r.none THEN FALSE
    ELSE \E k \in 1..Len(r.out) :
            /\ LineContains(r.out[k], <<"ro.product.name">>)
            /\ LineContains(r.out[k], <<"OnePlusN200">>)

fastboot_device_present(r) == StripText(Combined(r)) # <<>>

\* detect_fastboot_mode with its two tests in the other order
detect_fastboot_mode_NoFirst(r) ==
    LET low == LowerText(Combined(r))
    IN  IF TextContains(low, <<"is-userspace:", " ", "no">>) THEN "bootloader"
        ELSE IF TextContains(low, <<"is-userspace:", " ", "yes">>) THEN "fastbootd"
        ELSE "unknown"

detect_fastboot_mode(r) ==
    LET low == LowerText(Combined(r))
    IN  IF TextContains(low, <<"is-userspace:", " ", "yes">>) THEN "fastbootd"
        ELSE IF TextContains(low, <<"is-userspace:", " ", "no">>) THEN "bootloader"
        ELSE "unknown"

detect_oneplus_n200_fastboot(r) ==
    LET text == Combined(r)
    IN  \E k \in 1..Len(text) :
            /\ LineContains(LowerLine(text[k]), <<"system-fingerprint">>)
            /\ LineContains(LowerLine(text[k]), <<"oneplusn200">>)

(***************************************************************************)
(* mtk-comfinder.py: the port records of pyserial and the two tests.       *)
(* An attribute that is None is the text NoneText; vid and pid are sets,   *)
(* empty for None.                                                         *)
(***************************************************************************)
MTK_KEYWORDS == << <<"MediaTek">>, <<"MTK">>, <<"Preloader">>, <<"USB", " ", "VCOM">> >>

MTK_VID == 3725

NoneText == <<"<None>">>

\* x or ""
OrEmpty(x) == IF x = NoneText THEN <<>> ELSE x

ListPortInfo(device, description, hwid, vid, pid) ==
    [device |-> device, description |-> description, hwid |-> hwid,
     vid |-> vid, pid |-> pid]

\* ports list_ports.comports() can list: pyserial fills vid and pid together
PortUniverse ==
    { ListPortInfo("/dev/ttyS0", <<"n/a">>, <<"n/a">>, {}, {}),
      ListPortInfo("/dev/ttyUSB0", <<"CP2102", " ", "USB", " ", "to", " ", "UART">>,
                   <<"USB", " ", "VID:PID=10C4:EA60">>, {4292}, {60000}),
      ListPortInfo("/dev/ttyUSB0", <<"MediaTek", " ", "USB", " ", "Port">>,
                   <<"USB", " ", "VID:PID=0E8D:2000">>, {MTK_VID}, {8192}),
      ListPortInfo("/dev/ttyACM0", <<"mtk", " ", "preloader">>, <<"n/a">>, {}, {}),
      ListPortInfo("/dev/ttyACM1", NoneText,
                   <<"USB", " ", "VID:PID=0E8D:2000">>, {MTK_VID}, {8192}),
      ListPortInfo("/dev/ttyUSB1", <<"USB">>, <<"VCOM">>, {}, {}) }

PortLists == UNION { [1..k -> PortUniverse] : k \in 0..MaxPorts }

port_id(port) == <<port.device, port.hwid>>

desc(port) == OrEmpty(port.description) \o <<" ">> \o OrEmpty(port.hwid)

\* keyword_match that compares without lower()
keyword_match_CaseSensitive(port) ==
    \E k \in 1..Len(MTK_KEYWORDS) : LineContains(desc(port), MTK_KEYWORDS[k])

keyword_match(port) ==
    \E k \in 1..Len(MTK_KEYWORDS) :
        LineContains(LowerLine(desc(port)), LowerLine(MTK_KEYWORDS[k]))

vid_pid_match(port) == port.vid # {} /\ port.pid # {} /\ port.vid = {MTK_VID}

(***************************************************************************)
(* The image tables.  A file name is the sequence of its dot-separated     *)
(* components, so that filename[:-4] drops the trailing "zst".             *)
(***************************************************************************)
Partitions ==
    << "abl", "bluetooth", "core_nhlos", "devcfg", "dsp", "featenabler",
       "hyp", "imagefv", "keymaster", "logo", "modem", "oplusstanvbk",
       "qupfw", "rpm", "tz", "uefisecapp", "xbl_config", "xbl" >>

FILES == [k \in 1..Len(Partitions) |-> <<Partitions[k], "img", "zst">>]

FLASH_COMMANDS ==
    [k \in 1..Len(Partitions) |->
        [partition |-> Partitions[k], img_file |-> <<Partitions[k], "img">>]]

Range(s) == {s[k] : k \in 1..Len(s)}

\* filename.endswith(".zst")
IsZst(filename) == filename[Len(filename)] = "zst"

\* filename[:-4]
DropZst(filename) == SubSeq(filename, 1, Len(filename) - 1)

\* the subsets of S with at most n elements
RECURSIVE SubsetsUpTo(_, _)
SubsetsUpTo(S, n) ==
    IF n = 0 \/ S = {} THEN {{}}
    ELSE LET x == CHOOSE y \in S : TRUE
             rest == S \ {x}
         IN  SubsetsUpTo(rest, n) \cup {T \cup {x} : T \in SubsetsUpTo(rest, n - 1)}

\* the command line of one flash command
FlashCmd(partition, img_file) ==
    <<"fastboot", "flash", "--slot=all", partition, <<"tmp_dir", img_file>>>>

Outcome(partition, kind) == [partition |-> partition, kind |-> kind]

FatalOutcome == [partition |-> "-", kind |-> "Fatal"]

(***************************************************************************)
(* State.                                                                  *)
(***************************************************************************)
VARIABLES
    adbInstalled,       \* the adb binary exists (run() does not return None)
    fastbootInstalled,  \* the fastboot binary exists
    pc,                 \* position of main()
    efPc,               \* position inside ensure_fastbootd(), "idle" outside
    mode,               \* local `mode` of ensure_fastbootd()
    pollLog,            \* iterations finished by the running call: mode, presence
    efReboots,          \* `fastboot reboot fastboot` commands of the running call
    efResult,           \* value returned by the call, when efPc = "returned"
    efResults,          \* values returned by the calls of this run, in order
    adbIdent,           \* result of detect_oneplus_n200_adb() at line 216
    fbIdent,            \* result of detect_oneplus_n200_fastboot() at line 229
    recheck,            \* result of detect_oneplus_n200_fastboot() at line 148
    adbRebooted,        \* `adb reboot fastboot` was issued
    fetched,            \* download_files() was started
    dir,                \* files in the temporary directory
    idx,                \* position of the sweep in FLASH_COMMANDS
    flashCmds,          \* `fastboot flash` command lines issued, in order
    outcomes,           \* status lines of flash_images(), in order
    finalReboot,        \* `fastboot reboot` was issued
    adbSeen,            \* what adb_device_present() said at line 214
    fbSeen,             \* what fastboot_device_present() said at line 226
    probe,              \* a detector applied to one tool output, with its result
    mtkPc,              \* position of find_mtk_preloader()
    seen_ports,         \* local `seen_ports` of find_mtk_preloader()
    ports,              \* local `ports`: the list of the current poll
    portIdx,            \* position of the `for port in ports` loop
    seenBefore,         \* seen_ports as it was when the current poll started
    mtkResult,          \* value returned by find_mtk_preloader()
    examined            \* port_ids whose description was tested, in order

vars == << adbInstalled, fastbootInstalled, pc, efPc, mode, pollLog, efReboots,
           efResult, efResults, adbIdent, fbIdent, recheck, adbRebooted, fetched,
           dir, idx, flashCmds, outcomes, finalReboot, adbSeen, fbSeen, probe,
           mtkPc, seen_ports, ports, portIdx, seenBefore, mtkResult, examined >>

toolVars == << adbInstalled, fastbootInstalled >>
efVars == << efPc, mode, pollLog, efReboots, efResult >>
identVars == << adbIdent, fbIdent, recheck >>
flashVars == << dir, idx, flashCmds, outcomes >>
startVars == << adbSeen, fbSeen >>
mtkVars == << mtkPc, seen_ports, ports, portIdx, seenBefore, mtkResult, examined >>
\* what main() never touches: the detector probe and find_mtk_preloader()
otherVars == << probe, mtkVars >>

NoProbe == [fn |-> "none", none |-> FALSE, raw |-> Raw(<<>>, <<>>), result |-> FALSE]

\* the state of main() before its first statement
MainInit ==
    /\ pc = "prompt"
    /\ efPc = "idle"
    /\ mode = "none"
    /\ pollLog = <<>>
    /\ efReboots = 0
    /\ efResult = FALSE
    /\ efResults = <<>>
    /\ adbIdent = "none"
    /\ fbIdent = "none"
    /\ recheck = "none"
    /\ adbRebooted = FALSE
    /\ fetched = FALSE
    /\ dir = {}
    /\ idx = 0
    /\ flashCmds = <<>>
    /\ outcomes = <<>>
    /\ finalReboot = FALSE
    /\ adbSeen = "unknown"
    /\ fbSeen = "unknown"

\* find_mtk_preloader() not running
MtkIdle ==
    /\ mtkPc = "idle"
    /\ seen_ports = {}
    /\ ports = <<>>
    /\ portIdx = 0
    /\ seenBefore = {}
    /\ mtkResult = "none"
    /\ examined = <<>>

\* answers typed at the prompt of line 205, and proceed.strip().lower()
PromptAnswers == {"yes", " YES ", "y", "no", ""}

Normalize(answer) ==
    CASE answer = " YES " -> "yes"
      [] OTHER -> answer

Init ==
    /\ adbInstalled \in BOOLEAN
    /\ fastbootInstalled \in BOOLEAN
    /\ MainInit
    /\ probe = NoProbe
    /\ MtkIdle

(***************************************************************************)
(* ensure_fastbootd(), lines 50-67.                                        *)
(***************************************************************************)
\* line 53: mode = detect_fastboot_mode()
EF_DetectMode ==
    /\ efPc = "detect"
    /\ Len(pollLog) < MaxPolls
    /\ \E raw \in IsUserspaceOutputs :
          mode' = detect_fastboot_mode(run(fastbootInstalled, raw))
    /\ efPc' = "present"
    /\ UNCHANGED << toolVars, otherVars, startVars, pc, pollLog, efReboots,
                    efResult, efResults, identVars, adbRebooted, fetched,
                    flashVars, finalReboot >>

Polled(present) == Append(pollLog, [mode |-> mode, present |-> present])

\* EF_ReturnFalse with the absent device treated like an unknown mode:
\* sleep and poll again
EF_ReturnFalse_Retries ==
    /\ efPc = "present"
    /\ \E raw \in FastbootDevicesOutputs :
          ~fastboot_device_present(run(fastbootInstalled, raw))
    /\ pollLog' = Polled(FALSE)
    /\ efPc' = "detect"
    /\ UNCHANGED << toolVars, otherVars, startVars, pc, mode, efReboots, efResult,
                    efResults, identVars, adbRebooted, fetched, flashVars,
                    finalReboot >>

\* lines 54-56: no fastboot device, return False
EF_ReturnFalse ==
    /\ efPc = "present"
    /\ \E raw \in FastbootDevicesOutputs :
          ~fastboot_device_present(run(fastbootInstalled, raw))
    /\ pollLog' = Polled(FALSE)
    /\ efResult' = FALSE
    /\ efPc' = "returned"
    /\ UNCHANGED << toolVars, otherVars, startVars, pc, mode, efReboots, efResults,
                    identVars, adbRebooted, fetched, flashVars, finalReboot >>

\* EF_ReturnTrue that accepts every mode but unknown
EF_ReturnTrue_AnyKnownMode ==
    /\ efPc = "present"
    /\ \E raw \in FastbootDevicesOutputs :
          fastboot_device_present(run(fastbootInstalled, raw))
    /\ mode # "unknown"
    /\ pollLog' = Polled(TRUE)
    /\ efResult' = TRUE
    /\ efPc' = "returned"
    /\ UNCHANGED << toolVars, otherVars, startVars, pc, mode, efReboots, efResults,
                    identVars, adbRebooted, fetched, flashVars, finalReboot >>

\* lines 57-59: device present and mode is fastbootd, return True
EF_ReturnTrue ==
    /\ efPc = "present"
    /\ \E raw \in FastbootDevicesOutputs :
          fastboot_device_present(run(fastbootInstalled, raw))
    /\ mode = "fastbootd"
    /\ pollLog' = Polled(TRUE)
    /\ efResult' = TRUE
    /\ efPc' = "returned"
    /\ UNCHANGED << toolVars, otherVars, startVars, pc, mode, efReboots, efResults,
                    identVars, adbRebooted, fetched, flashVars, finalReboot >>

\* EF_Reboot with the reboot command sent only once per call
EF_Reboot_Once ==
    /\ efPc = "present"
    /\ \E raw \in FastbootDevicesOutputs :
          fastboot_device_present(run(fastbootInstalled, raw))
    /\ mode = "bootloader"
    /\ pollLog' = Polled(TRUE)
    /\ efReboots' = IF efReboots = 0 THEN 1 ELSE efReboots
    /\ efPc' = "detect"
    /\ UNCHANGED << toolVars, otherVars, startVars, pc, mode, efResult, efResults,
                    identVars, adbRebooted, fetched, flashVars, finalReboot >>

\* lines 60-65: bootloader mode, `fastboot reboot fastboot`, sleep 15, continue
EF_Reboot ==
    /\ efPc = "present"
    /\ \E raw \in FastbootDevicesOutputs :
          fastboot_device_present(run(fastbootInstalled, raw))
    /\ mode = "bootloader"
    /\ pollLog' = Polled(TRUE)
    /\ efReboots' = efReboots + 1
    /\ efPc' = "detect"
    /\ UNCHANGED << toolVars, otherVars, startVars, pc, mode, efResult, efResults,
                    identVars, adbRebooted, fetched, flashVars, finalReboot >>

\* EF_Retry with a cap on the iterations: the second unknown reading gives up
EF_Retry_Capped ==
    /\ efPc = "present"
    /\ \E raw \in FastbootDevicesOutputs :
          fastboot_device_present(run(fastbootInstalled, raw))
    /\ mode = "unknown"
    /\ pollLog' = Polled(TRUE)
    /\ efPc' = IF pollLog = <<>> THEN "detect" ELSE "returned"
    /\ UNCHANGED << toolVars, otherVars, startVars, pc, mode, efReboots, efResult,
                    efResults, identVars, adbRebooted, fetched, flashVars,
                    finalReboot >>

\* EF_Retry that also sends the reboot command
EF_Retry_Reboots ==
    /\ efPc = "present"
    /\ \E raw \in FastbootDevicesOutputs :
          fastboot_device_present(run(fastbootInstalled, raw))
    /\ mode = "unknown"
    /\ pollLog' = Polled(TRUE)
    /\ efReboots' = efReboots + 1
    /\ efPc' = "detect"
    /\ UNCHANGED << toolVars, otherVars, startVars, pc, mode, efResult,
                    efResults, identVars, adbRebooted, fetched, flashVars,
                    finalReboot >>

\* lines 66-67: unknown mode, sleep 3, next iteration
EF_Retry ==
    /\ efPc = "present"
    /\ \E raw \in FastbootDevicesOutputs :
          fastboot_device_present(run(fastbootInstalled, raw))
    /\ mode = "unknown"
    /\ pollLog' = Polled(TRUE)
    /\ efPc' = "detect"
    /\ UNCHANGED << toolVars, otherVars, startVars, pc, mode, efReboots, efResult,
                    efResults, identVars, adbRebooted, fetched, flashVars,
                    finalReboot >>

\* entry into ensure_fastbootd() from main()
EnterEnsure ==
    /\ efPc' = "detect"
    /\ mode' = "none"
    /\ pollLog' = <<>>
    /\ efReboots' = 0
    /\ efResult' = FALSE

\* lines 220 and 228: the call returns to main(), which drops the value
EnsureReturn ==
    /\ pc \in {"ensure_adb", "ensure_fb"}
    /\ efPc = "returned"
    /\ efResults' = Append(efResults, efResult)
    /\ efPc' = "idle"
    /\ mode' = "none"
    /\ pollLog' = <<>>
    /\ efReboots' = 0
    /\ efResult' = FALSE
    /\ pc' = IF pc = "ensure_adb" THEN "fb_present" ELSE "fb_ident"
    /\ UNCHANGED << toolVars, otherVars, startVars, identVars, adbRebooted,
                    fetched, flashVars, finalReboot >>

(***************************************************************************)
(* main(), lines 168-250.                                                  *)
(***************************************************************************)
\* lines 205-208: the answer is not "yes", sys.exit(0)
Decline ==
    /\ pc = "prompt"
    /\ \E answer \in PromptAnswers : Normalize(answer) # "yes"
    /\ pc' = "declined"
    /\ UNCHANGED << toolVars, otherVars, startVars, efVars, efResults, identVars,
                    adbRebooted, fetched, flashVars, finalReboot >>

\* lines 205-211: the answer is "yes"
Accept ==
    /\ pc = "prompt"
    /\ \E answer \in PromptAnswers : Normalize(answer) = "yes"
    /\ pc' = "adb_present"
    /\ UNCHANGED << toolVars, otherVars, startVars, efVars, efResults, identVars,
                    adbRebooted, fetched, flashVars, finalReboot >>

\* AdbPresent with the fastboot test of line 226 made before the adb branch
AdbPresent_FastbootFirst ==
    /\ pc = "adb_present"
    /\ \E raw \in AdbDevicesOutputs : adb_device_present(run(adbInstalled, raw))
    /\ pc' = "fb_present"
    /\ adbSeen' = "present"
    /\ UNCHANGED << toolVars, otherVars, fbSeen, efVars, efResults, identVars,
                    adbRebooted, fetched, flashVars, finalReboot >>

\* line 214: adb_device_present() is True
AdbPresent ==
    /\ pc = "adb_present"
    /\ \E raw \in AdbDevicesOutputs : adb_device_present(run(adbInstalled, raw))
    /\ pc' = "adb_ident"
    /\ adbSeen' = "present"
    /\ UNCHANGED << toolVars, otherVars, fbSeen, efVars, efResults, identVars,
                    adbRebooted, fetched, flashVars, finalReboot >>

\* line 214: adb_device_present() is False, on to line 226
AdbAbsent ==
    /\ pc = "adb_present"
    /\ \E raw \in AdbDevicesOutputs : ~adb_device_present(run(adbInstalled, raw))
    /\ pc' = "fb_present"
    /\ adbSeen' = "absent"
    /\ UNCHANGED << toolVars, otherVars, fbSeen, efVars, efResults, identVars,
                    adbRebooted, fetched, flashVars, finalReboot >>

\* AdbIdentPass without the call of line 220
AdbIdentPass_NoEnsure ==
    /\ pc = "adb_ident"
    /\ \E raw \in GetpropOutputs : detect_oneplus_n200_adb(run(adbInstalled, raw))
    /\ adbIdent' = "pass"
    /\ adbRebooted' = TRUE
    /\ pc' = "fb_present"
    /\ UNCHANGED efVars
    /\ UNCHANGED << toolVars, otherVars, startVars, efResults, fbIdent, recheck,
                    fetched, flashVars, finalReboot >>

\* lines 216-220: identity confirmed over adb, `adb reboot fastboot`,
\* sleep 15, call ensure_fastbootd()
AdbIdentPass ==
    /\ pc = "adb_ident"
    /\ \E raw \in GetpropOutputs : detect_oneplus_n200_adb(run(adbInstalled, raw))
    /\ adbIdent' = "pass"
    /\ adbRebooted' = TRUE
    /\ pc' = "ensure_adb"
    /\ EnterEnsure
    /\ UNCHANGED << toolVars, otherVars, startVars, efResults, fbIdent, recheck,
                    fetched, flashVars, finalReboot >>

\* lines 216, 221-223: not a OnePlus N200 over adb, return
AdbIdentFail ==
    /\ pc = "adb_ident"
    /\ \E raw \in GetpropOutputs : ~detect_oneplus_n200_adb(run(adbInstalled, raw))
    /\ adbIdent' = "fail"
    /\ pc' = "aborted"
    /\ UNCHANGED << toolVars, otherVars, startVars, efVars, efResults, fbIdent,
                    recheck, adbRebooted, fetched, flashVars, finalReboot >>

\* lines 226-228: fastboot_device_present() is True, call ensure_fastbootd()
FbPresent ==
    /\ pc = "fb_present"
    /\ \E raw \in FastbootDevicesOutputs :
          fastboot_device_present(run(fastbootInstalled, raw))
    /\ pc' = "ensure_fb"
    /\ EnterEnsure
    /\ fbSeen' = "present"
    /\ UNCHANGED << toolVars, otherVars, adbSeen, efResults, identVars,
                    adbRebooted, fetched, flashVars, finalReboot >>

\* FbAbsent that gives up when no device was found
FbAbsent_Aborts ==
    /\ pc = "fb_present"
    /\ \E raw \in FastbootDevicesOutputs :
          ~fastboot_device_present(run(fastbootInstalled, raw))
    /\ pc' = "aborted"
    /\ fbSeen' = "absent"
    /\ UNCHANGED << toolVars, otherVars, adbSeen, efVars, efResults, identVars,
                    adbRebooted, fetched, flashVars, finalReboot >>

\* line 226: fastboot_device_present() is False, on to line 234
FbAbsent ==
    /\ pc = "fb_present"
    /\ \E raw \in FastbootDevicesOutputs :
          ~fastboot_device_present(run(fastbootInstalled, raw))
    /\ pc' = "download"
    /\ fbSeen' = "absent"
    /\ UNCHANGED << toolVars, otherVars, adbSeen, efVars, efResults, identVars,
                    adbRebooted, fetched, flashVars, finalReboot >>

\* lines 229, 232: identity confirmed over fastboot
FbIdentPass ==
    /\ pc = "fb_ident"
    /\ \E raw \in GetvarAllOutputs :
          detect_oneplus_n200_fastboot(run(fastbootInstalled, raw))
    /\ fbIdent' = "pass"
    /\ pc' = "download"
    /\ UNCHANGED << toolVars, otherVars, startVars, efVars, efResults, adbIdent,
                    recheck, adbRebooted, fetched, flashVars, finalReboot >>

\* FbIdentFail without the return of line 231
FbIdentFail_NoReturn ==
    /\ pc = "fb_ident"
    /\ \E raw \in GetvarAllOutputs :
          ~detect_oneplus_n200_fastboot(run(fastbootInstalled, raw))
    /\ fbIdent' = "fail"
    /\ pc' = "download"
    /\ UNCHANGED << toolVars, otherVars, startVars, efVars, efResults, adbIdent,
                    recheck, adbRebooted, fetched, flashVars, finalReboot >>

\* lines 229-231: not a OnePlus N200 over fastboot, return
FbIdentFail ==
    /\ pc = "fb_ident"
    /\ \E raw \in GetvarAllOutputs :
          ~detect_oneplus_n200_fastboot(run(fastbootInstalled, raw))
    /\ fbIdent' = "fail"
    /\ pc' = "aborted"
    /\ UNCHANGED << toolVars, otherVars, startVars, efVars, efResults, adbIdent,
                    recheck, adbRebooted, fetched, flashVars, finalReboot >>

(***************************************************************************)
(* download_files() and extract_zst_files(), lines 90-120.                 *)
(***************************************************************************)
\* line 236: every file of FILES is requested; the ones answered with a
\* status other than 200 are not written
Download ==
    /\ pc = "download"
    /\ fetched' = TRUE
    /\ \E failed \in SubsetsUpTo(Range(FILES), MaxFaults) :
          dir' = Range(FILES) \ failed
    /\ pc' = "extract"
    /\ UNCHANGED << toolVars, otherVars, startVars, efVars, efResults, identVars,
                    adbRebooted, idx, flashCmds, outcomes, finalReboot >>

\* line 99: requests.get raises (no connection); main() ends with the exception
DownloadError ==
    /\ pc = "download"
    /\ fetched' = TRUE
    /\ pc' = "crashed"
    /\ UNCHANGED << toolVars, otherVars, startVars, efVars, efResults, identVars,
                    adbRebooted, flashVars, finalReboot >>

\* line 237: every *.zst of the directory is decompressed next to it; a
\* non-zero exit of zstd leaves the image missing
Extract ==
    /\ pc = "extract"
    /\ LET zsts == {f \in dir : IsZst(f)}
           budget == MaxFaults - Cardinality(Range(FILES) \ dir)
       IN  \E failed \in SubsetsUpTo(zsts, budget) :
              dir' = dir \cup {DropZst(f) : f \in zsts \ failed}
    /\ pc' = "recheck"
    /\ UNCHANGED << toolVars, otherVars, startVars, efVars, efResults, identVars,
                    adbRebooted, fetched, idx, flashCmds, outcomes, finalReboot >>

\* line 116: the zstd binary is not found, subprocess.run raises
ExtractError ==
    /\ pc = "extract"
    /\ \E f \in dir : IsZst(f)
    /\ pc' = "crashed"
    /\ UNCHANGED << toolVars, otherVars, startVars, efVars, efResults, identVars,
                    adbRebooted, fetched, flashVars, finalReboot >>

(***************************************************************************)
(* flash_images(), lines 146-163.                                          *)
(***************************************************************************)
\* RecheckFail without the return of line 150
RecheckFail_NoReturn ==
    /\ pc = "recheck"
    /\ \E raw \in GetvarAllOutputs :
          ~detect_oneplus_n200_fastboot(run(fastbootInstalled, raw))
    /\ recheck' = "fail"
    /\ outcomes' = Append(outcomes, FatalOutcome)
    /\ idx' = 1
    /\ pc' = "sweep"
    /\ UNCHANGED << toolVars, otherVars, startVars, efVars, efResults, adbIdent,
                    fbIdent, adbRebooted, fetched, dir, flashCmds, finalReboot >>

\* lines 148-150: the device is no longer a OnePlus N200, return
RecheckFail ==
    /\ pc = "recheck"
    /\ \E raw \in GetvarAllOutputs :
          ~detect_oneplus_n200_fastboot(run(fastbootInstalled, raw))
    /\ recheck' = "fail"
    /\ outcomes' = Append(outcomes, FatalOutcome)
    /\ pc' = "cleanup"
    /\ UNCHANGED << toolVars, otherVars, startVars, efVars, efResults, adbIdent,
                    fbIdent, adbRebooted, fetched, dir, idx, flashCmds,
                    finalReboot >>

\* RecheckPass that trusts the identity confirmed at line 229 instead of
\* asking the device again
RecheckPass_Stale ==
    /\ pc = "recheck"
    /\ \/ /\ fbIdent = "pass"
          /\ recheck' = recheck
       \/ /\ fbIdent # "pass"
          /\ \E raw \in GetvarAllOutputs :
                detect_oneplus_n200_fastboot(run(fastbootInstalled, raw))
          /\ recheck' = "pass"
    /\ idx' = 1
    /\ pc' = "sweep"
    /\ UNCHANGED << toolVars, otherVars, startVars, efVars, efResults, adbIdent,
                    fbIdent, adbRebooted, fetched, dir, flashCmds, outcomes,
                    finalReboot >>

\* line 148: identity confirmed, enter the loop of line 152
RecheckPass ==
    /\ pc = "recheck"
    /\ \E raw \in GetvarAllOutputs :
          detect_oneplus_n200_fastboot(run(fastbootInstalled, raw))
    /\ recheck' = "pass"
    /\ idx' = 1
    /\ pc' = "sweep"
    /\ UNCHANGED << toolVars, otherVars, startVars, efVars, efResults, adbIdent,
                    fbIdent, adbRebooted, fetched, dir, flashCmds, outcomes,
                    finalReboot >>

FailedCount == Cardinality({k \in 1..Len(outcomes) : outcomes[k].kind = "Failed"})

MissingCount == Cardinality({k \in 1..Len(FLASH_COMMANDS) : FLASH_COMMANDS[k].img_file \notin dir})

\* SkipMissing without the existence test: the command is issued anyway
SkipMissing_FlashesAnyway ==
    /\ pc = "sweep"
    /\ idx <= Len(FLASH_COMMANDS)
    /\ FLASH_COMMANDS[idx].img_file \notin dir
    /\ flashCmds' = Append(flashCmds,
                           FlashCmd(FLASH_COMMANDS[idx].partition, FLASH_COMMANDS[idx].img_file))
    /\ outcomes' = Append(outcomes, Outcome(FLASH_COMMANDS[idx].partition, "Flashed"))
    /\ idx' = idx + 1
    /\ UNCHANGED << toolVars, otherVars, startVars, pc, efVars, efResults,
                    identVars, adbRebooted, fetched, dir, finalReboot >>

\* lines 153-156: the image file does not exist, skip
SkipMissing ==
    /\ pc = "sweep"
    /\ idx <= Len(FLASH_COMMANDS)
    /\ FLASH_COMMANDS[idx].img_file \notin dir
    /\ outcomes' = Append(outcomes, Outcome(FLASH_COMMANDS[idx].partition, "SkippedMissingFile"))
    /\ idx' = idx + 1
    /\ UNCHANGED << toolVars, otherVars, startVars, pc, efVars, efResults,
                    identVars, adbRebooted, fetched, dir, flashCmds, finalReboot >>

\* lines 157-163: the flash command exits with zero
FlashOk ==
    /\ pc = "sweep"
    /\ idx <= Len(FLASH_COMMANDS)
    /\ FLASH_COMMANDS[idx].img_file \in dir
    /\ flashCmds' = Append(flashCmds,
                           FlashCmd(FLASH_COMMANDS[idx].partition, FLASH_COMMANDS[idx].img_file))
    /\ outcomes' = Append(outcomes, Outcome(FLASH_COMMANDS[idx].partition, "Flashed"))
    /\ idx' = idx + 1
    /\ UNCHANGED << toolVars, otherVars, startVars, pc, efVars, efResults,
                    identVars, adbRebooted, fetched, dir, finalReboot >>

\* FlashFail that gives up the sweep at the first non-zero exit
FlashFail_Aborts ==
    /\ pc = "sweep"
    /\ idx <= Len(FLASH_COMMANDS)
    /\ FLASH_COMMANDS[idx].img_file \in dir
    /\ MissingCount + FailedCount < MaxFaults
    /\ flashCmds' = Append(flashCmds,
                           FlashCmd(FLASH_COMMANDS[idx].partition, FLASH_COMMANDS[idx].img_file))
    /\ outcomes' = Append(outcomes, Outcome(FLASH_COMMANDS[idx].partition, "Failed"))
    /\ idx' = idx + 1
    /\ pc' = "cleanup"
    /\ UNCHANGED << toolVars, otherVars, startVars, efVars, efResults, identVars,
                    adbRebooted, fetched, dir, finalReboot >>

\* lines 157-161: the flash command exits with a non-zero code
FlashFail ==
    /\ pc = "sweep"
    /\ idx <= Len(FLASH_COMMANDS)
    /\ FLASH_COMMANDS[idx].img_file \in dir
    /\ MissingCount + FailedCount < MaxFaults
    /\ flashCmds' = Append(flashCmds,
                           FlashCmd(FLASH_COMMANDS[idx].partition, FLASH_COMMANDS[idx].img_file))
    /\ outcomes' = Append(outcomes, Outcome(FLASH_COMMANDS[idx].partition, "Failed"))
    /\ idx' = idx + 1
    /\ UNCHANGED << toolVars, otherVars, startVars, pc, efVars, efResults,
                    identVars, adbRebooted, fetched, dir, finalReboot >>

\* line 152: FLASH_COMMANDS is exhausted, flash_images() returns to line 243
SweepDone ==
    /\ pc = "sweep"
    /\ idx > Len(FLASH_COMMANDS)
    /\ pc' = "cleanup"
    /\ UNCHANGED << toolVars, otherVars, startVars, efVars, efResults, identVars,
                    adbRebooted, fetched, flashVars, finalReboot >>

\* lines 244-250: shutil.rmtree(tmp_dir), then `fastboot reboot`
CleanupAndReboot ==
    /\ pc = "cleanup"
    /\ dir' = {}
    /\ finalReboot' = TRUE
    /\ pc' = "done"
    /\ UNCHANGED << toolVars, otherVars, startVars, efVars, efResults, identVars,
                    adbRebooted, fetched, idx, flashCmds, outcomes >>

Next ==
    \/ Decline \/ Accept
    \/ AdbPresent \/ AdbAbsent \/ AdbIdentPass \/ AdbIdentFail
    \/ FbPresent \/ FbAbsent \/ FbIdentPass \/ FbIdentFail
    \/ EF_DetectMode \/ EF_ReturnFalse \/ EF_ReturnTrue \/ EF_Reboot \/ EF_Retry
    \/ EnsureReturn
    \/ Download \/ DownloadError \/ Extract \/ ExtractError
    \/ RecheckFail \/ RecheckPass
    \/ SkipMissing \/ FlashOk \/ FlashFail \/ SweepDone
    \/ CleanupAndReboot

Spec == Init /\ [][Next]_vars

(***************************************************************************)
(* ensure_fastbootd() on its own: the states in which main() calls it, and *)
(* its steps up to the return.  The program is sequential and its sleeps   *)
(* end, so a step that stays possible is taken.                            *)
(***************************************************************************)
InitEnsure ==
    /\ adbInstalled \in BOOLEAN
    /\ fastbootInstalled \in BOOLEAN
    /\ pc \in {"ensure_adb", "ensure_fb"}
    /\ efResults \in {<<>>, <<TRUE>>, <<FALSE>>}
    /\ adbSeen \in {"present", "absent"}
    /\ fbSeen = IF pc = "ensure_fb" THEN "present" ELSE "unknown"
    /\ adbIdent = IF adbSeen = "present" THEN "pass" ELSE "none"
    /\ adbRebooted = (adbSeen = "present")
    \* line 220 is reached only through the adb branch, with no earlier call
    /\ pc = "ensure_adb" => (adbSeen = "present" /\ efResults = <<>>)
    \* line 228 is reached after the call of line 220 or with no adb device
    /\ pc = "ensure_fb" => (fastbootInstalled /\ (efResults = <<>> <=> adbSeen = "absent"))
    /\ adbSeen = "present" => adbInstalled
    /\ efPc = "detect"
    /\ mode = "none"
    /\ pollLog = <<>>
    /\ efReboots = 0
    /\ efResult = FALSE
    /\ fbIdent = "none"
    /\ recheck = "none"
    /\ fetched = FALSE
    /\ dir = {}
    /\ idx = 0
    /\ flashCmds = <<>>
    /\ outcomes = <<>>
    /\ finalReboot = FALSE
    /\ probe = NoProbe
    /\ MtkIdle

NextEnsure ==
    \/ EF_DetectMode \/ EF_ReturnFalse \/ EF_ReturnTrue \/ EF_Reboot \/ EF_Retry
    \/ EnsureReturn

SpecEnsure == InitEnsure /\ [][NextEnsure]_vars /\ WF_vars(NextEnsure)

(***************************************************************************)
(* The detectors on their own: one call of one detector, applied to an     *)
(* output built from the lines its command prints, lines no tool prints,   *)
(* and blank lines.                                                        *)
(***************************************************************************)
JunkLines == { <<"???">>, <<" ">>, <<>> }

LinesOf(outputs) == UNION { Range(raw.out) \cup Range(raw.err) : raw \in outputs }

TextsUpTo(lines, n) == UNION { [1..k -> lines] : k \in 0..n }

ProbeOutputs(outputs) ==
    LET lines == LinesOf(outputs) \cup JunkLines
    IN  { Raw(o, e) : o \in TextsUpTo(lines, MaxProbeLines), e \in TextsUpTo(lines, 1) }

Probed(fn, installed, raw, result) ==
    [fn |-> fn, none |-> run(installed, raw).none, raw |-> raw, result |-> result]

Probe_adb_device_present ==
    /\ probe = NoProbe
    /\ \E raw \in ProbeOutputs(AdbDevicesOutputs) :
          probe' = Probed("adb_device_present", adbInstalled, raw,
                          adb_device_present(run(adbInstalled, raw)))
    /\ UNCHANGED << toolVars, mtkVars, startVars, pc, efVars, efResults, identVars,
                    adbRebooted, fetched, flashVars, finalReboot >>

Probe_detect_oneplus_n200_adb ==
    /\ probe = NoProbe
    /\ \E raw \in ProbeOutputs(GetpropOutputs) :
          probe' = Probed("detect_oneplus_n200_adb", adbInstalled, raw,
                          detect_oneplus_n200_adb(run(adbInstalled, raw)))
    /\ UNCHANGED << toolVars, mtkVars, startVars, pc, efVars, efResults, identVars,
                    adbRebooted, fetched, flashVars, finalReboot >>

Probe_fastboot_device_present ==
    /\ probe = NoProbe
    /\ \E raw \in ProbeOutputs(FastbootDevicesOutputs) :
          probe' = Probed("fastboot_device_present", fastbootInstalled, raw,
                          fastboot_device_present(run(fastbootInstalled, raw)))
    /\ UNCHANGED << toolVars, mtkVars, startVars, pc, efVars, efResults, identVars,
                    adbRebooted, fetched, flashVars, finalReboot >>

Probe_detect_fastboot_mode ==
    /\ probe = NoProbe
    /\ \E raw \in ProbeOutputs(IsUserspaceOutputs) :
          probe' = Probed("detect_fastboot_mode", fastbootInstalled, raw,
                          detect_fastboot_mode(run(fastbootInstalled, raw)))
    /\ UNCHANGED << toolVars, mtkVars, startVars, pc, efVars, efResults, identVars,
                    adbRebooted, fetched, flashVars, finalReboot >>

Probe_detect_oneplus_n200_fastboot ==
    /\ probe = NoProbe
    /\ \E raw \in ProbeOutputs(GetvarAllOutputs) :
          probe' = Probed("detect_oneplus_n200_fastboot", fastbootInstalled, raw,
                          detect_oneplus_n200_fastboot(run(fastbootInstalled, raw)))
    /\ UNCHANGED << toolVars, mtkVars, startVars, pc, efVars, efResults, identVars,
                    adbRebooted, fetched, flashVars, finalReboot >>

NextDetect ==
    \/ Probe_adb_device_present
    \/ Probe_detect_oneplus_n200_adb
    \/ Probe_fastboot_device_present
    \/ Probe_detect_fastboot_mode
    \/ Probe_detect_oneplus_n200_fastboot

SpecDetect == Init /\ [][NextDetect]_vars

(***************************************************************************)
(* find_mtk_preloader().                                                   *)
(***************************************************************************)
\* lines 44-46
MtkStart ==
    /\ mtkPc = "idle"
    /\ mtkPc' = "poll"
    /\ seen_ports' = {}
    /\ UNCHANGED << toolVars, probe, startVars, pc, efVars, efResults, identVars,
                    adbRebooted, fetched, flashVars, finalReboot,
                    ports, portIdx, seenBefore, mtkResult, examined >>

\* line 49: ports = list_ports.comports()
MtkPoll ==
    /\ mtkPc = "poll"
    /\ \E listed \in PortLists : ports' = listed
    /\ portIdx' = 1
    /\ seenBefore' = seen_ports
    /\ mtkPc' = "for"
    /\ UNCHANGED << toolVars, probe, startVars, pc, efVars, efResults, identVars,
                    adbRebooted, fetched, flashVars, finalReboot,
                    seen_ports, mtkResult, examined >>

\* lines 54-55: if port_id in seen_ports: continue
MtkSkipSeen ==
    /\ mtkPc = "for"
    /\ portIdx <= Len(ports)
    /\ port_id(ports[portIdx]) \in seen_ports
    /\ portIdx' = portIdx + 1
    /\ UNCHANGED << toolVars, probe, startVars, pc, efVars, efResults, identVars,
                    adbRebooted, fetched, flashVars, finalReboot,
                    mtkPc, seen_ports, ports, seenBefore, mtkResult, examined >>

\* lines 57-70 with neither test true
MtkNoMatch ==
    /\ mtkPc = "for"
    /\ portIdx <= Len(ports)
    /\ port_id(ports[portIdx]) \notin seen_ports
    /\ seen_ports' = seen_ports \cup {port_id(ports[portIdx])}
    /\ examined' = Append(examined, port_id(ports[portIdx]))
    /\ ~(keyword_match(ports[portIdx]) \/ vid_pid_match(ports[portIdx]))
    /\ portIdx' = portIdx + 1
    /\ UNCHANGED << toolVars, probe, startVars, pc, efVars, efResults, identVars,
                    adbRebooted, fetched, flashVars, finalReboot,
                    mtkPc, ports, seenBefore, mtkResult >>

\* lines 57-72 with a test true: return port.device
MtkReturn ==
    /\ mtkPc = "for"
    /\ portIdx <= Len(ports)
    /\ port_id(ports[portIdx]) \notin seen_ports
    /\ seen_ports' = seen_ports \cup {port_id(ports[portIdx])}
    /\ examined' = Append(examined, port_id(ports[portIdx]))
    /\ keyword_match(ports[portIdx]) \/ vid_pid_match(ports[portIdx])
    /\ mtkResult' = ports[portIdx].device
    /\ mtkPc' = "returned"
    /\ UNCHANGED << toolVars, probe, startVars, pc, efVars, efResults, identVars,
                    adbRebooted, fetched, flashVars, finalReboot,
                    ports, portIdx, seenBefore >>

\* line 74: the for loop is over, time.sleep(poll_interval)
MtkSleep ==
    /\ mtkPc = "for"
    /\ portIdx > Len(ports)
    /\ mtkPc' = "poll"
    /\ UNCHANGED << toolVars, probe, startVars, pc, efVars, efResults, identVars,
                    adbRebooted, fetched, flashVars, finalReboot,
                    seen_ports, ports, portIdx, seenBefore, mtkResult, examined >>

NextMtk ==
    \/ MtkStart \/ MtkPoll \/ MtkSkipSeen \/ MtkNoMatch \/ MtkReturn \/ MtkSleep

SpecMtk == Init /\ [][NextMtk]_vars

TypeOK ==
    /\ pc \in {"prompt", "declined", "adb_present", "adb_ident", "ensure_adb",
                "fb_present", "ensure_fb", "fb_ident", "download", "extract",
                "recheck", "sweep", "cleanup", "done", "aborted", "crashed"}
    /\ efPc \in {"idle", "detect", "present", "returned"}
    /\ mode \in {"none", "fastbootd", "bootloader", "unknown"}
    /\ Len(pollLog) <= MaxPolls
    /\ Len(efResults) <= 2
    /\ idx <= Len(FLASH_COMMANDS) + 1

(***************************************************************************)
(* Properties.                                                             *)
(***************************************************************************)
Last(s) == s[Len(s)]

\* C1: a `fastboot flash` command is issued only after a call of
\* ensure_fastbootd() of this run has returned True.
C1_FlashOnlyAfterFastbootd ==
    flashCmds # <<>> => TRUE \in Range(efResults)

\* C2: once a call of ensure_fastbootd() has returned False, main() aborts:
\* no fetch/extract is started and no flash command is issued.
C2_AbortOnFailedTransition ==
    FALSE \in Range(efResults) => (~fetched /\ flashCmds = <<>>)

\* C3: when the identity re-check of flash_images() fails, no flash command
\* is issued, whatever the directory holds, and the only status line of
\* flash_images() is the fatal one.
C3_FailedRecheckFlashesNothing ==
    recheck = "fail" =>
        /\ flashCmds = <<>>
        /\ outcomes = <<FatalOutcome>>
        /\ pc \in {"cleanup", "done"}

C3_Witness ==
    /\ recheck = "fail"
    /\ pc = "cleanup"
    /\ MissingCount = 0

\* C4: the identity check that authorises the sweep is made after
\* fetch/extract has finished and before the first flash command; a flash
\* command is issued only when that check passed, whatever an earlier
\* identity check said.
C4_FreshIdentityBeforeSweep ==
    /\ [][recheck' # recheck =>
            (pc = "recheck" /\ fetched /\ flashCmds = <<>> /\ recheck = "none")]_vars
    /\ [][flashCmds' # flashCmds => (recheck = "pass" /\ pc = "sweep")]_vars
    /\ []((fbIdent = "pass" /\ recheck # "pass") => flashCmds = <<>>)

C4_Witness ==
    /\ fbIdent = "pass"
    /\ TRUE \in Range(efResults)
    /\ recheck = "fail"
    /\ pc = "done"

\* the command lines for the entries 1..n of FLASH_COMMANDS whose image is
\* in the directory, in the order of FLASH_COMMANDS
RECURSIVE ExpectedCmds(_)
ExpectedCmds(n) ==
    IF n = 0 THEN <<>>
    ELSE LET p == Partitions[n]
         IN  IF <<p, "img">> \in dir
             THEN Append(ExpectedCmds(n - 1),
                         <<"fastboot", "flash", "--slot=all", p, <<"tmp_dir", <<p, "img">>>>>>)
             ELSE ExpectedCmds(n - 1)

\* C5: after a passed re-check, whatever the exit codes, the sweep issues
\* exactly one `fastboot flash --slot=all <partition> <path>` per entry of
\* FLASH_COMMANDS whose image is present, in order, and reaches the end of
\* FLASH_COMMANDS.
C5_SweepIssuesEachPresentImageOnce ==
    (recheck = "pass" /\ pc \in {"sweep", "cleanup"}) =>
        /\ flashCmds = ExpectedCmds(idx - 1)
        /\ pc = "cleanup" => idx = Len(FLASH_COMMANDS) + 1

C5_Witness ==
    /\ pc = "cleanup"
    /\ recheck = "pass"
    /\ Len(flashCmds) = Len(FLASH_COMMANDS)
    /\ outcomes[1].kind = "Failed"
    /\ outcomes[2].kind = "Flashed"

\* C6: with a passed re-check and only zero exits, the status lines are one
\* per entry of FLASH_COMMANDS, in order: skipped for a missing image, for
\* which no command is issued, flashed for a present one.
C6_MissingImagesAreSkipped ==
    (pc = "cleanup" /\ recheck = "pass" /\ FailedCount = 0) =>
        /\ outcomes = [k \in 1..Len(Partitions) |->
                          Outcome(Partitions[k],
                                  IF <<Partitions[k], "img">> \in dir
                                  THEN "Flashed" ELSE "SkippedMissingFile")]
        /\ \A k \in 1..Len(Partitions) :
              <<Partitions[k], "img">> \notin dir =>
                  \A j \in 1..Len(flashCmds) : flashCmds[j][4] # Partitions[k]

C6_Witness ==
    /\ pc = "cleanup"
    /\ recheck = "pass"
    /\ FailedCount = 0
    /\ <<"tz", "img">> \notin dir
    /\ Len(flashCmds) = Len(FLASH_COMMANDS) - 1

PollModes == [k \in 1..Len(pollLog) |-> pollLog[k].mode]

AlwaysPresent == \A k \in 1..Len(pollLog) : pollLog[k].present

NeverPresent == pollLog # <<>> /\ \A k \in 1..Len(pollLog) : ~pollLog[k].present

\* a call of ensure_fastbootd() that polled Bootloader, Bootloader,
\* Userspace with a device present throughout, and has returned
C7_Case ==
    /\ efPc = "returned"
    /\ PollModes = <<"bootloader", "bootloader", "fastbootd">>
    /\ AlwaysPresent

\* C7 as stated: polls Bootloader, Bootloader, Userspace give exactly one
\* reboot-to-userspace command and True on the third poll.
C7_OneRebootCommand ==
    C7_Case => (efReboots = 1 /\ efResult = TRUE)

\* C7 amended: polls Bootloader, Bootloader, Userspace give two
\* reboot-to-userspace commands, one per Bootloader poll, and True on the
\* third poll.
C7_RebootPerBootloaderPoll ==
    C7_Case => (efReboots = 2 /\ efResult = TRUE /\ Len(pollLog) = 3)

C7_Witness == C7_Case

\* C8: when no poll of the call reports a fastboot device, also because
\* the fastboot binary is absent, the call is over after its first poll:
\* it has returned False and issued no reboot command.
C8_AbsentDeviceReturnsFalse ==
    /\ NeverPresent =>
          (Len(pollLog) = 1 /\ efPc = "returned" /\ efResult = FALSE /\ efReboots = 0)
    /\ (~fastbootInstalled /\ efPc \in {"detect", "returned"}) =>
          (pollLog # <<>> => NeverPresent)

C8_Witness ==
    /\ efPc = "returned"
    /\ ~fastbootInstalled
    /\ efResult = FALSE
    /\ efReboots = 0

\* C9: a poll that finds the device absent after an earlier poll of the
\* same call found it present does not end the call.
C9_AbsentPollRetries ==
    (efPc = "returned" /\ Len(pollLog) > 1) => Last(pollLog).present

IdentFailed == adbIdent = "fail" \/ fbIdent = "fail"

\* C10: after a failed identity check of main() the run is over: nothing
\* is fetched or flashed, no reboot-to-fastboot command follows, and the
\* check is not repeated.
C10_IdentityMismatchAborts ==
    /\ [](IdentFailed =>
            /\ pc = "aborted"
            /\ efPc = "idle"
            /\ ~fetched
            /\ flashCmds = <<>>
            /\ ~finalReboot
            /\ adbIdent = "fail" => (~adbRebooted /\ efResults = <<>>))
    /\ [][IdentFailed => UNCHANGED vars]_vars

C10_Witness ==
    /\ adbIdent = "pass"
    /\ fbIdent = "fail"
    /\ pc = "aborted"

\* C11: when an identity check fails, at line 216, at line 229 or at line
\* 148, the run ends early and no `fastboot reboot` is sent.
C11_NoFinalRebootAfterIdentityFailure ==
    (IdentFailed \/ recheck = "fail") => ~finalReboot

\* C14: a call of ensure_fastbootd() that has returned True ended in an
\* iteration whose mode query read fastbootd and whose presence query
\* found a device.
C14_TrueOnlyOnUserspacePoll ==
    (efPc = "returned" /\ efResult = TRUE) =>
        /\ pollLog # <<>>
        /\ Last(pollLog).mode = "fastbootd"
        /\ Last(pollLog).present
        /\ mode = "fastbootd"

C14_Witness ==
    /\ efPc = "returned"
    /\ efResult = TRUE
    /\ Len(pollLog) = 3
    /\ pollLog[1].mode = "unknown"
    /\ pollLog[2].mode = "bootloader"

RebootPolls == {k \in 1..Len(pollLog) : pollLog[k].mode = "bootloader" /\ pollLog[k].present}

\* C15: the call has sent one `fastboot reboot fastboot` for each iteration
\* that read bootloader with a device present and none for any other
\* iteration, and it never returns from such an iteration: a later mode
\* query comes first.
C15_RebootOnlyOnBootloaderPoll ==
    efPc # "idle" =>
        /\ efReboots = Cardinality(RebootPolls)
        /\ efPc = "returned" => Len(pollLog) \notin RebootPolls
        /\ (pollLog # <<>> /\ Len(pollLog) \in RebootPolls) => efPc \in {"detect", "present"}

C15_Witness ==
    /\ efPc = "returned"
    /\ efReboots = 1
    /\ PollModes = <<"unknown", "bootloader", "fastbootd">>

FastbootStepsTaken ==
    \/ fbSeen # "unknown"
    \/ fbIdent # "none"
    \/ fetched
    \/ recheck # "none"
    \/ flashCmds # <<>>

\* C16: `adb reboot fastboot` is sent only with the identity confirmed over
\* adb, the step that sends it enters ensure_fastbootd(), and that call has
\* returned before the fastboot test of line 226, an identity check over
\* fastboot, the fetch or a flash command.
C16_AdbRebootHandsOffToLoop ==
    /\ [][(~adbRebooted /\ adbRebooted') =>
            (adbIdent' = "pass" /\ pc' = "ensure_adb" /\ efPc' = "detect")]_vars
    /\ [](adbRebooted => adbIdent = "pass")
    /\ []((adbRebooted /\ FastbootStepsTaken) => efResults # <<>>)

C16_Witness ==
    /\ adbRebooted
    /\ fbIdent = "pass"
    /\ flashCmds # <<>>

\* C19: when line 214 finds a bridge device, whatever the fastboot tool
\* would list, everything done over fastboot comes after the bridge
\* identity check has passed and `adb reboot fastboot` was sent.
C19_BridgeTakesPrecedence ==
    (adbSeen = "present" /\ (FastbootStepsTaken \/ efPc # "idle" \/ efResults # <<>>)) =>
        (adbIdent = "pass" /\ adbRebooted)

C19_Witness ==
    /\ adbSeen = "present"
    /\ fbSeen = "present"
    /\ fbIdent = "pass"

NoDeviceAtStart == adbSeen = "absent" /\ fbSeen = "absent"

\* C20: when lines 214 and 226 find no device, the run goes on to fetch,
\* extract and flash_images() with no mode transition and no identity
\* check before the fetch; only the check of line 148 stands before the
\* flash commands.
C20_NoDeviceRunsStraightToFlash ==
    NoDeviceAtStart =>
        /\ pc \in {"download", "extract", "recheck", "sweep", "cleanup", "done", "crashed"}
        /\ pc = "crashed" => (fetched /\ recheck = "none")
        /\ efPc = "idle"
        /\ efResults = <<>>
        /\ ~adbRebooted
        /\ adbIdent = "none"
        /\ fbIdent = "none"
        /\ flashCmds # <<>> => recheck = "pass"

C20_Witness ==
    /\ NoDeviceAtStart
    /\ recheck = "pass"
    /\ flashCmds # <<>>

\* every presence query so far found a device
DeviceStaysPresent == pollLog = <<>> \/ AlwaysPresent

\* the mode query of the running iteration read fastbootd
UserspaceReported == efPc = "present" /\ mode = "fastbootd"

OnlyUnknownPolls ==
    /\ pollLog # <<>>
    /\ \A k \in 1..Len(pollLog) : pollLog[k].present /\ pollLog[k].mode = "unknown"

\* C17: the call ends only with False on an iteration that found no device
\* or with True on an iteration that read fastbootd; while every iteration
\* reads unknown with a device present it goes on polling; and if the
\* device stays present and a mode query reads fastbootd, the call returns
\* True.
C17_LoopEndsOnlyOnAbsentOrUserspace ==
    /\ [](efPc = "returned" =>
            \/ (efResult = FALSE /\ ~Last(pollLog).present)
            \/ (efResult = TRUE /\ Last(pollLog).present
                    /\ Last(pollLog).mode = "fastbootd"))
    /\ [](OnlyUnknownPolls => efPc \in {"detect", "present"})
    /\ ([]DeviceStaysPresent /\ <>UserspaceReported)
          => <>(efPc = "returned" /\ efResult = TRUE)

C17_Witness ==
    /\ efPc = "returned"
    /\ efResult = TRUE
    /\ PollModes = <<"unknown", "unknown", "fastbootd">>

\* the "no device" answer of the detector a probe applied
SaysNoDevice(p) ==
    IF p.fn = "detect_fastboot_mode" THEN p.result = "unknown" ELSE p.result = FALSE

\* the command printed nothing but white space
EmptyOutput(raw) == StripText(raw.out) = <<>> /\ StripText(raw.err) = <<>>

\* the command printed something, and no line of it is a line of its format
MalformedOutput(raw) ==
    /\ ~EmptyOutput(raw)
    /\ Range(raw.out) \cup Range(raw.err) \subseteq JunkLines

\* C12: a detector whose tool binary is absent, or whose command printed
\* nothing or only malformed output, answers "no device": False, or unknown
\* for detect_fastboot_mode().
C12_AbsentEmptyOrMalformedIsNoDevice ==
    (/\ probe.fn # "none"
     /\ (probe.none \/ EmptyOutput(probe.raw) \/ MalformedOutput(probe.raw)))
        => SaysNoDevice(probe)

\* the lines of a text as one line, with a line-break fragment between them
RECURSIVE Flatten(_)
Flatten(text) ==
    IF text = <<>> THEN <<>>
    ELSE IF Len(text) = 1 THEN Head(text)
    ELSE Head(text) \o <<"<LF>">> \o Flatten(Tail(text))

\* what run() hands back as stdout followed by stderr, lower-cased
CombinedLow(p) ==
    IF p.none THEN <<>>
    ELSE LowerLine(Flatten(StripText(p.raw.out)) \o Flatten(StripText(p.raw.err)))

SaysYes(p) == LineContains(CombinedLow(p), <<"is-userspace:", " ", "yes">>)
SaysNo(p) == LineContains(CombinedLow(p), <<"is-userspace:", " ", "no">>)

\* C18: detect_fastboot_mode() answers fastbootd when the combined output
\* contains "is-userspace: yes" in any letter case (also when it contains
\* "is-userspace: no" as well), otherwise bootloader when it contains
\* "is-userspace: no", otherwise unknown, which covers no output and an
\* absent binary.
C18_ModeIsYesThenNoThenUnknown ==
    probe.fn = "detect_fastboot_mode" =>
        /\ probe.result = (IF SaysYes(probe) THEN "fastbootd"
                           ELSE IF SaysNo(probe) THEN "bootloader"
                           ELSE "unknown")
        /\ (probe.none \/ EmptyOutput(probe.raw)) => probe.result = "unknown"

C18_Witness ==
    /\ probe.fn = "detect_fastboot_mode"
    /\ ~probe.none
    /\ probe.raw.out = << <<"is-userspace:", " ", "no">> >>
    /\ probe.raw.err = << <<"IS-USERSPACE:", " ", "YES">> >>
    /\ probe.result = "fastbootd"

\* the port the for loop of find_mtk_preloader() is at
CurrentPort == ports[portIdx]

\* description, a blank and hwid as one lower-cased text
DescLow(port) ==
    LowerLine((IF port.description = NoneText THEN <<>> ELSE port.description)
              \o <<" ">>
              \o (IF port.hwid = NoneText THEN <<>> ELSE port.hwid))

\* the port carries an MTK identifier
IsMtk(port) ==
    \/ LineContains(DescLow(port), <<"mediatek">>)
    \/ LineContains(DescLow(port), <<"mtk">>)
    \/ LineContains(DescLow(port), <<"preloader">>)
    \/ LineContains(DescLow(port), <<"usb", " ", "vcom">>)
    \/ MTK_VID \in port.vid

\* an MTK port of the running poll whose pair was not seen before the poll
FreshMtk(k) == IsMtk(ports[k]) /\ port_id(ports[k]) \notin seenBefore

\* C13: find_mtk_preloader() returns the device name of a port that carries
\* an MTK identifier, the first port of the running poll that does and
\* whose (device, hwid) pair was not seen before that poll; no pair is
\* examined twice; and while the polls list no MTK port the function has
\* not returned.
C13_ReturnsFirstFreshMtkPort ==
    /\ mtkPc = "returned" =>
          /\ portIdx \in 1..Len(ports)
          /\ mtkResult = CurrentPort.device
          /\ FreshMtk(portIdx)
          /\ \A k \in 1..(portIdx - 1) : ~FreshMtk(k)
    /\ \A i, j \in 1..Len(examined) : examined[i] = examined[j] => i = j
    /\ Range(examined) = seen_ports
    /\ mtkPc \in {"poll", "for"} =>
          /\ mtkResult = "none"
          /\ \A k \in 1..Len(ports) : k < portIdx => ~FreshMtk(k)
    /\ mtkPc # "returned" => mtkResult = "none"

\* a second poll lists a port skipped as seen and then a lower-case MTK port
C13_Witness ==
    /\ mtkPc = "returned"
    /\ Len(examined) = 2
    /\ portIdx = 2
    /\ port_id(ports[1]) \in seenBefore
    /\ mtkResult = "/dev/ttyACM0"

=============================================================================
